---- MODULE Spec2Model ----
(***************************************************************************)
(* The memory store of src/agent.py: the in-process mapping                *)
(* persistent_memories, its JSON file, add_memory with its compaction      *)
(* (summarize_old_memories) and the read path get_memory_summary.          *)
(*                                                                         *)
(* Texts are TLA+ strings, handled with \o, Len and SubSeq as Python       *)
(* handles str.  A timestamp is the value of the wall clock (an integer    *)
(* number of ticks) at the moment datetime.utcnow() is read; the clock is  *)
(* taken not to run backwards.                                             *)
(***************************************************************************)
EXTENDS Integers, Sequences, FiniteSets, TLC

VARIABLES
    persistent_memories,  \* agent.py:100  user -> list of {text, timestamp}
    file,                 \* memory_store.json: [state, content]
    mem0,                 \* agent.py:79-82  TRUE iff a MemoryClient is configured
    now,                  \* the last value read from the wall clock
    appended,             \* number of add_memory calls made on the store so far
    started,              \* the value of appended when this process started
    specials,             \* number of texts appended that are not "m<i>"
    fails,                \* number of calls in which mem0 or the disk failed
    history,              \* the texts passed to add_memory by this process, in call order
    compactions,          \* number of compactions made on the store so far
    call,                 \* the last operation: its inputs, outcomes and result
    llm_instance,         \* agent.py:65-70  TRUE iff the model was created
    turns,                \* the conversation turns: where each handler stands
    waiting,              \* the call of mem0 add_memory is blocked in, if any
    active_timers,        \* tools.py:125  timer id -> "RUNNING" or "DONE"
    threads,              \* the timer threads that are asleep: [n, timer_id, wake]
    elapsed,              \* minutes gone by since the process started
    set_timers,           \* the set_timer calls made, in call order: [timer_id, minutes, at]
    timer_call            \* the last timer operation: [op, timer_id, result]

vars == <<persistent_memories, file, mem0, now, appended, started, specials, fails,
          history, compactions, call, llm_instance, turns, waiting,
          active_timers, threads, elapsed, set_timers, timer_call>>

\* the state of the memory store
storeVars == <<persistent_memories, file, mem0, now, appended, started, specials, fails,
               history, compactions, call>>

\* the state of the timer tools
timerVars == <<active_timers, threads, elapsed, set_timers, timer_call>>

\* the state of the turn handlers and of a call add_memory is blocked in
handlerVars == <<llm_instance, turns, waiting>>

----------------------------------------------------------------------------
(* Bounds of the model *)

\* add_memory calls made by the run that is modelled
MaxAppends == 3
\* conversation turns handled by the run that is modelled
MaxTurns == 2
\* appended texts that are not of the regular shape "m<i>"
MaxSpecial == 1
\* the largest clock reading
MaxClock == 1
\* failures of the collaborators and of the disk
MaxFails == 1

\* number of set_timer calls in a run
MaxSetTimers == 3

\* number of timer ids random.randint draws from
MaxTimerIds == 2

\* longest timer asked for, in minutes
MaxMinutes == 1

\* minutes a run lasts
MaxElapsed == 2
\* how many appends short of a compaction an earlier run stopped
Lead == 2

----------------------------------------------------------------------------
(* Program constants and literals *)

user_name == "Kinga"

HIGH_WATER == 50

KEEP_RECENT == 20

CONTEXT_ENTRIES == 5

SUMMARY_PREFIX == "Summary of past: "

FALLBACK_SUMMARY == "Past conversations and interactions"

FAILED_SUMMARY == " (failed to summarize older memories) "

NO_MEMORIES == "No past memories yet."

MARKER == "- "

NEWLINE == "\n"

----------------------------------------------------------------------------
(* Python list and str helpers *)

\* xs[-n:]
LastN(xs, n) ==
    IF Len(xs) <= n THEN xs ELSE SubSeq(xs, Len(xs) - n + 1, Len(xs))

\* xs[:-n]
AllButLastN(xs, n) ==
    IF Len(xs) <= n THEN <<>> ELSE SubSeq(xs, 1, Len(xs) - n)

\* sep.join(strs)
RECURSIVE Join(_, _)
Join(sep, strs) ==
    IF strs = <<>> THEN ""
    ELSE IF Len(strs) = 1 THEN strs[1]
    ELSE strs[1] \o sep \o Join(sep, Tail(strs))

\* s.startswith(p)
StartsWith(s, p) ==
    Len(s) >= Len(p) /\ SubSeq(s, 1, Len(p)) = p

\* the number of lines of s: one more than its line breaks
LineCount(s) ==
    1 + Cardinality({i \in 1..Len(s) : SubSeq(s, i, i) = NEWLINE})

Texts(entries) == [i \in 1..Len(entries) |-> entries[i].text]

----------------------------------------------------------------------------
(* The JSON file *)

EmptyMap == <<>>

QUOTE == "\""

BACKSLASH == "\\"

\* the characters of a text that json.dump writes as an escape
Escaped == {QUOTE, BACKSLASH, NEWLINE}

\* json.dump of one character of a str
json_escape(c) ==
    CASE c = QUOTE -> BACKSLASH \o QUOTE
      [] c = BACKSLASH -> BACKSLASH \o BACKSLASH
      [] c = NEWLINE -> BACKSLASH \o "n"
      [] OTHER -> c

\* json.load of the character that follows a backslash
json_unescape(c) == IF c = "n" THEN NEWLINE ELSE c

RECURSIVE EscapeFrom(_, _)
EscapeFrom(s, i) ==
    IF i > Len(s) THEN ""
    ELSE json_escape(SubSeq(s, i, i)) \o EscapeFrom(s, i + 1)

\* the str between the quotes, written without escapes
json_string_raw(s) == QUOTE \o s \o QUOTE

\* agent.py:96: the JSON string json.dump writes for the str s
json_string(s) ==
    IF \A i \in 1..Len(s) : SubSeq(s, i, i) \notin Escaped
    THEN QUOTE \o s \o QUOTE
    ELSE QUOTE \o EscapeFrom(s, 1) \o QUOTE

\* the str read from place i of j up to the first quote that is not escaped,
\* and the place of that quote
RECURSIVE ScanFrom(_, _)
ScanFrom(j, i) ==
    IF i > Len(j) THEN [closed |-> FALSE, end |-> i, str |-> ""]
    ELSE IF SubSeq(j, i, i) = QUOTE THEN [closed |-> TRUE, end |-> i, str |-> ""]
    ELSE IF SubSeq(j, i, i) = BACKSLASH
    THEN [ScanFrom(j, i + 2) EXCEPT !.str = json_unescape(SubSeq(j, i + 1, i + 1)) \o @]
    ELSE [ScanFrom(j, i + 1) EXCEPT !.str = SubSeq(j, i, i) \o @]

\* agent.py:88: the str json.load reads from the JSON string j; not ok when
\* the string ends before j does, or never ends
json_parse_string(j) ==
    LET inner == SubSeq(j, 2, Len(j) - 1)
    IN  IF \A i \in 1..Len(inner) : SubSeq(inner, i, i) \notin {QUOTE, BACKSLASH}
        THEN [ok |-> TRUE, str |-> inner]
        ELSE LET r == ScanFrom(j, 2)
             IN  [ok |-> r.closed /\ r.end = Len(j), str |-> r.str]

\* JSON values that are not an object: an array, null
OtherJson == {[json |-> "array"], [json |-> "null"]}

\* agent.py:96: the document json.dump writes for the mapping.  A timestamp
\* is an isoformat string, which holds no character that is escaped.
json_dump(memories) ==
    [u \in DOMAIN memories |->
        [i \in 1..Len(memories[u]) |->
            [text |-> json_string(memories[u][i].text),
             timestamp |-> memories[u][i].timestamp]]]

\* agent.py:88: the value json.load reads from the document, or a decode error
json_load(doc) ==
    IF doc \in OtherJson THEN [ok |-> TRUE, value |-> doc]
    ELSE IF \A u \in DOMAIN doc : \A i \in 1..Len(doc[u]) :
                json_parse_string(doc[u][i].text).ok
    THEN [ok |-> TRUE,
          value |-> [u \in DOMAIN doc |->
                       [i \in 1..Len(doc[u]) |->
                           [text |-> json_parse_string(doc[u][i].text).str,
                            timestamp |-> doc[u][i].timestamp]]]]
    ELSE [ok |-> FALSE, value |-> EmptyMap]

\* the file does not exist
MissingFile == [state |-> "missing", content |-> EmptyMap]

\* the file holds text json.load rejects (a write that stopped half way)
CorruptFile == [state |-> "corrupt", content |-> EmptyMap]

\* the file holds bytes that are no text in the encoding open() reads with
UndecodableFile == [state |-> "undecodable", content |-> EmptyMap]

\* the file holds the JSON of mapping m
WrittenFile(m) == [state |-> "written", content |-> json_dump(m)]

\* the file holds the JSON value v, which is not an object
OtherFile(v) == [state |-> "written", content |-> v]

\* agent.py:84-91: the value returned, or an exception that is not caught
load_memory_file(f) ==
    CASE f.state = "missing" -> [raised |-> FALSE, memories |-> EmptyMap]
      [] f.state = "corrupt" -> [raised |-> FALSE, memories |-> EmptyMap]
      [] f.state = "undecodable" -> [raised |-> TRUE, memories |-> EmptyMap]
      [] f.state = "written" ->
            [raised |-> FALSE, memories |-> json_load(f.content).value]

\* outcome: "ok", "open_failed" (open(.., "w") raised: the file is untouched)
\* or "dump_failed" (json.dump raised after open truncated the file)
save_memory_file(memories, old, outcome) ==
    CASE outcome = "ok" -> WrittenFile(memories)
      [] outcome = "open_failed" -> old
      [] outcome = "dump_failed" -> CorruptFile

SaveOutcomes == {"ok", "open_failed", "dump_failed"}

----------------------------------------------------------------------------
(* The remote collaborator mem0 *)

\* what mem0.add did: "none" when mem0 is not configured
AddOutcomes(configured) == IF configured THEN {"ok", "raise"} ELSE {"none"}

\* the strings mem0.summarize may return
RemoteSummaries == {"Kinga likes tea"}

NotCalled == [called |-> FALSE, raise |-> FALSE, value |-> ""]

\* what mem0.summarize did, when it is called
SummarizeOutcomes ==
    {[called |-> TRUE, raise |-> TRUE, value |-> ""]}
    \cup {[called |-> TRUE, raise |-> FALSE, value |-> s] : s \in RemoteSummaries}

\* mem0.add called outside any try block
TryMem0Add_uncaught(outcome) ==
    IF outcome = "raise" THEN "escaped" ELSE "ok"

\* agent.py:104-108: "escaped" iff an exception of mem0.add leaves the try block
TryMem0Add(outcome) ==
    IF outcome = "raise" THEN "caught" ELSE "ok"

\* the except branch assigning the same placeholder as the else branch
SummaryOf_one_placeholder(configured, outcome) ==
    IF configured /\ ~outcome.raise
    THEN [escaped |-> FALSE, summary |-> outcome.value]
    ELSE [escaped |-> FALSE, summary |-> FALLBACK_SUMMARY]

\* agent.py:129-137: the summary string, and whether an exception escaped
SummaryOf(configured, outcome) ==
    IF configured
    THEN IF outcome.raise
         THEN [escaped |-> FALSE, summary |-> FAILED_SUMMARY]
         ELSE [escaped |-> FALSE, summary |-> outcome.value]
    ELSE [escaped |-> FALSE, summary |-> FALLBACK_SUMMARY]

----------------------------------------------------------------------------
(* The store *)

Entry(text, ts) == [text |-> text, timestamp |-> ts]

\* persistent_memories.get(user, [])
Log(memories, user) ==
    IF user \in DOMAIN memories THEN memories[user] ELSE <<>>

\* the texts of all the entries joined, the recent ones too
combined_text_all(memories, user_id) ==
    Join(" ", Texts(memories[user_id]))

\* the old entries joined without the entry at index 0
combined_text_skips_first(memories, user_id) ==
    Join(" ", Texts(Tail(AllButLastN(memories[user_id], KEEP_RECENT))))

\* agent.py:126-127
combined_text(memories, user_id) ==
    Join(" ", Texts(AllButLastN(memories[user_id], KEEP_RECENT)))

\* the slice [:20] in place of [-20:]
summarize_old_memories_keeps_first(memories, user_id, configured, outcome, ts) ==
    [escaped |-> FALSE,
     asked |-> IF configured THEN <<combined_text(memories, user_id)>> ELSE <<>>,
     memories |->
         [memories EXCEPT ![user_id] =
             <<Entry(SUMMARY_PREFIX \o SummaryOf(configured, outcome).summary, ts)>>
             \o SubSeq(memories[user_id], 1, KEEP_RECENT)]]

\* the summary entry stamped with the time of the oldest entry it replaces
summarize_old_memories_old_stamp(memories, user_id, configured, outcome, ts) ==
    [escaped |-> FALSE,
     asked |-> IF configured THEN <<combined_text(memories, user_id)>> ELSE <<>>,
     memories |->
         [memories EXCEPT ![user_id] =
             <<Entry(SUMMARY_PREFIX \o SummaryOf(configured, outcome).summary,
                     memories[user_id][1].timestamp)>>
             \o LastN(memories[user_id], KEEP_RECENT)]]

\* the retained entries written anew, stamped with the time of the compaction
summarize_old_memories_restamps(memories, user_id, configured, outcome, ts) ==
    [escaped |-> FALSE,
     asked |-> IF configured THEN <<combined_text(memories, user_id)>> ELSE <<>>,
     memories |->
         [memories EXCEPT ![user_id] =
             <<Entry(SUMMARY_PREFIX \o SummaryOf(configured, outcome).summary, ts)>>
             \o [i \in 1..KEEP_RECENT |->
                    Entry(LastN(memories[user_id], KEEP_RECENT)[i].text, ts)]]]

\* the summary entry of the compaction before kept behind the new one
summarize_old_memories_keeps_summary(memories, user_id, configured, outcome, ts) ==
    [escaped |-> FALSE,
     asked |-> IF configured THEN <<combined_text(memories, user_id)>> ELSE <<>>,
     memories |->
         [memories EXCEPT ![user_id] =
             <<Entry(SUMMARY_PREFIX \o SummaryOf(configured, outcome).summary, ts)>>
             \o (IF StartsWith(memories[user_id][1].text, SUMMARY_PREFIX)
                 THEN <<memories[user_id][1]>> ELSE <<>>)
             \o LastN(memories[user_id], KEEP_RECENT)]]

\* agent.py:125-143; ts is the clock read at line 140.  asked holds the
\* argument of each call of mem0.summarize (line 131)
summarize_old_memories(memories, user_id, configured, outcome, ts) ==
    LET s == SummaryOf(configured, outcome)
        asked == IF configured THEN <<combined_text(memories, user_id)>> ELSE <<>>
    IN  IF s.escaped
        THEN [escaped |-> TRUE, asked |-> asked, memories |-> memories]
        ELSE [escaped |-> FALSE, asked |-> asked,
              memories |->
                  [memories EXCEPT ![user_id] =
                      <<Entry(SUMMARY_PREFIX \o s.summary, ts)>>
                      \o LastN(memories[user_id], KEEP_RECENT)]]

\* insert(0, ..) in place of append(..)
append_entry_front(memories, user, text, ts) ==
    LET present == IF user \in DOMAIN memories
                   THEN memories
                   ELSE (user :> <<>>) @@ memories
    IN  [present EXCEPT ![user] = <<Entry(text, ts)>> \o @]

\* agent.py:111-117; ts is the clock read at line 116
append_entry(memories, user, text, ts) ==
    LET present == IF user \in DOMAIN memories
                   THEN memories
                   ELSE (user :> <<>>) @@ memories
    IN  [present EXCEPT ![user] = Append(@, Entry(text, ts))]

\* >= in place of >
needs_compaction_at_mark(memories, user) == Len(memories[user]) >= HIGH_WATER

\* agent.py:119
needs_compaction(memories, user) == Len(memories[user]) > HIGH_WATER

\* the file written before the length is checked
add_memory_saves_first(memories, old, configured, in) ==
    LET grown == append_entry(memories, user_name, in.text, in.t1)
        over == needs_compaction(grown, user_name)
        comp == IF over
                THEN summarize_old_memories(grown, user_name, configured, in.sum, in.t2)
                ELSE [escaped |-> FALSE, asked |-> <<>>, memories |-> grown]
    IN  [memories |-> comp.memories,
         file |-> save_memory_file(grown, old, in.save),
         returned |-> "ok", compacted |-> over, saved |-> TRUE,
         summarized |-> comp.asked]

\* the file written from the mapping as it was before the append
add_memory_saves_stale(memories, old, configured, in) ==
    LET grown == append_entry(memories, user_name, in.text, in.t1)
        over == needs_compaction(grown, user_name)
        comp == IF over
                THEN summarize_old_memories(grown, user_name, configured, in.sum, in.t2)
                ELSE [escaped |-> FALSE, asked |-> <<>>, memories |-> grown]
    IN  [memories |-> comp.memories,
         file |-> save_memory_file(memories, old, in.save),
         returned |-> "ok", compacted |-> over, saved |-> TRUE,
         summarized |-> comp.asked]

\* save_memory_file without its try block: a failed write leaves add_memory
\* as an exception
add_memory_save_uncaught(memories, old, configured, in) ==
    LET grown == append_entry(memories, user_name, in.text, in.t1)
        over == needs_compaction(grown, user_name)
        comp == IF over
                THEN summarize_old_memories(grown, user_name, configured, in.sum, in.t2)
                ELSE [escaped |-> FALSE, asked |-> <<>>, memories |-> grown]
    IN  [memories |-> comp.memories,
         file |-> save_memory_file(comp.memories, old, in.save),
         returned |-> IF in.save = "ok" THEN "ok" ELSE "raised",
         compacted |-> over, saved |-> TRUE, summarized |-> comp.asked]

\* the file written only by the calls that compact
add_memory_saves_on_compaction(memories, old, configured, in) ==
    LET grown == append_entry(memories, user_name, in.text, in.t1)
        over == needs_compaction(grown, user_name)
        comp == IF over
                THEN summarize_old_memories(grown, user_name, configured, in.sum, in.t2)
                ELSE [escaped |-> FALSE, asked |-> <<>>, memories |-> grown]
    IN  [memories |-> comp.memories,
         file |-> IF over THEN save_memory_file(comp.memories, old, in.save) ELSE old,
         returned |-> "ok", compacted |-> over, saved |-> over,
         summarized |-> comp.asked]

\* each call working on the mapping it reads back from the file, not on the
\* mapping the process shares
add_memory_from_file(memories, old, configured, in) ==
    LET grown == append_entry(load_memory_file(old).memories, user_name, in.text, in.t1)
        over == needs_compaction(grown, user_name)
        comp == IF over
                THEN summarize_old_memories(grown, user_name, configured, in.sum, in.t2)
                ELSE [escaped |-> FALSE, asked |-> <<>>, memories |-> grown]
    IN  [memories |-> comp.memories,
         file |-> save_memory_file(comp.memories, old, in.save),
         returned |-> "ok", compacted |-> over, saved |-> TRUE,
         summarized |-> comp.asked]

\* agent.py:102-123.  in: the text, what the collaborators and the disk do,
\* and the two clock readings.  The result is the new mapping, the new file,
\* whether add_memory returned or raised, and what mem0.summarize was asked.
add_memory(memories, old, configured, in) ==
    IF configured /\ TryMem0Add(in.add) = "escaped"
    THEN [memories |-> memories, file |-> old, returned |-> "raised",
          compacted |-> FALSE, saved |-> FALSE, summarized |-> <<>>]
    ELSE IF memories \in OtherJson
    THEN \* lines 111-112 raise TypeError on a list and on None
         [memories |-> memories, file |-> old, returned |-> "raised",
          compacted |-> FALSE, saved |-> FALSE, summarized |-> <<>>]
    ELSE
    LET grown == append_entry(memories, user_name, in.text, in.t1)
        over == needs_compaction(grown, user_name)
        comp == IF over
                THEN summarize_old_memories(grown, user_name, configured, in.sum, in.t2)
                ELSE [escaped |-> FALSE, asked |-> <<>>, memories |-> grown]
    IN  IF comp.escaped
        THEN [memories |-> grown, file |-> old, returned |-> "raised",
              compacted |-> FALSE, saved |-> FALSE, summarized |-> comp.asked]
        ELSE [memories |-> comp.memories,
              file |-> save_memory_file(comp.memories, old, in.save),
              returned |-> "ok", compacted |-> over, saved |-> TRUE,
              summarized |-> comp.asked]

\* persistent_memories.setdefault(key, []): the key is created by the read
dict_setdefault_effect(memories, key) ==
    IF key \in DOMAIN memories THEN memories ELSE (key :> <<>>) @@ memories

\* agent.py:146: the mapping after persistent_memories.get(key, [])
dict_get_effect(memories, key) == memories

\* the entries rendered newest first
get_memory_summary_newest_first(memories) ==
    LET recent == Texts(LastN(Log(memories, user_name), CONTEXT_ENTRIES))
    IN  IF recent = <<>>
        THEN NO_MEMORIES
        ELSE Join(NEWLINE, [i \in 1..Len(recent) |->
                                MARKER \o recent[Len(recent) + 1 - i]])

\* the early return for an empty list left out
get_memory_summary_no_sentinel(memories) ==
    LET recent == Texts(LastN(Log(memories, user_name), CONTEXT_ENTRIES))
    IN  Join(NEWLINE, [i \in 1..Len(recent) |-> MARKER \o recent[i]])

\* agent.py:146: .get is no attribute of a list or of None
get_memory_summary_raises(memories) == memories \in OtherJson

\* agent.py:145-150
get_memory_summary(memories) ==
    LET file_memories == Log(memories, user_name)
        recent == Texts(LastN(file_memories, CONTEXT_ENTRIES))
    IN  IF recent = <<>>
        THEN NO_MEMORIES
        ELSE Join(NEWLINE, [i \in 1..Len(recent) |-> MARKER \o recent[i]])

----------------------------------------------------------------------------------------------------------------------------------------
(* Inputs *)

\* the i-th regular text
Msg(i) == "m" \o ToString(i)

\* texts with an unusual shape: empty, holding a line break and quotes,
\* looking like a summary
SpecialTexts ==
    {"", "two" \o NEWLINE \o QUOTE \o "lines" \o QUOTE, SUMMARY_PREFIX \o "mine"}

TextChoices ==
    {Msg(appended)} \cup (IF specials < MaxSpecial THEN SpecialTexts ELSE {})

\* the clock readings open to a read that follows a reading of t
ClockAfter(t) == {u \in {t, t + 1} : u <= MaxClock}

\* the outcomes open to a call: the failures are, while the bound allows one
AddChoices ==
    {o \in AddOutcomes(mem0) : o = "raise" => fails < MaxFails}

SummarizeChoices ==
    {o \in SummarizeOutcomes : o.raise => fails < MaxFails}

SaveChoices ==
    {o \in SaveOutcomes : o # "ok" => fails < MaxFails}

IsFailure(in) == in.add = "raise" \/ in.sum.raise \/ in.save # "ok"

NoInput == [text |-> "", add |-> "none", sum |-> NotCalled, save |-> "ok", t1 |-> 0, t2 |-> 0]

\* the i-th call of a run in which nothing unusual happens, at clock reading 0
RegularInput(i, configured) ==
    [text |-> Msg(i),
     add |-> IF configured THEN "ok" ELSE "none",
     sum |-> IF configured
             THEN CHOOSE o \in SummarizeOutcomes : ~o.raise
             ELSE NotCalled,
     save |-> "ok", t1 |-> 0, t2 |-> 0]

\* add_memory is not inside a call of mem0
NotWaiting ==
    [at |-> "none", answered |-> FALSE, in |-> NoInput, before |-> EmptyMap]

\* tools.py:125: no timer has been set
NoTimers ==
    /\ active_timers = [id \in {} |-> "RUNNING"]
    /\ threads = {}
    /\ elapsed = 0
    /\ set_timers = <<>>
    /\ timer_call = [op |-> "none", timer_id |-> 0, result |-> ""]

\* the conversation turns
TurnIds == 1..MaxTurns

\* a turn that has not come in yet.  text: the user's utterance; context:
\* what get_memory_summary returned; natural_reply: the local variable of the
\* handler; sent: what the handler sent to the user; logged: the texts it
\* passed to add_memory; result: how the handler ended
IdleTurn ==
    [pc |-> "idle", kind |-> "none", text |-> "", context |-> "",
     natural_reply |-> "", sent |-> <<>>, logged |-> <<>>, result |-> "none"]

----------------------------------------------------------------------------
(* The store at process start.  The process starts from whatever file an     *)
(* earlier run left (agent.py:100): no file, a file cut short, an empty      *)
(* mapping, a user without entries, or the mapping an earlier run of k       *)
(* regular add_memory calls wrote.                                           *)

\* the store, and the compactions made, after the regular add_memory calls
\* number lo .. hi - 1 on the store st
RECURSIVE ReplayFrom(_, _, _, _)
ReplayFrom(st, lo, hi, configured) ==
    IF hi <= lo THEN st
    ELSE IF hi = lo + 1
    THEN LET r == add_memory(st.memories, WrittenFile(st.memories), configured,
                             RegularInput(lo, configured))
         IN  [memories |-> r.memories,
              compactions |-> st.compactions + (IF r.compacted THEN 1 ELSE 0)]
    ELSE LET mid == (lo + hi) \div 2
         IN  CHOOSE m \in {ReplayFrom(half, mid, hi, configured) :
                              half \in {ReplayFrom(st, lo, mid, configured)}} : TRUE

\* after k regular add_memory calls on an empty store
Replay(k, configured) ==
    ReplayFrom([memories |-> EmptyMap, compactions |-> 0], 0, k, configured)

\* the add_memory calls that compact, counted from an empty store
FirstCompaction == HIGH_WATER + 1

SecondCompaction == FirstCompaction + (HIGH_WATER - KEEP_RECENT)

\* the lengths of the earlier runs
EarlierRuns == {FirstCompaction - Lead, SecondCompaction - Lead}

\* what is at the place of the file: nothing, text that is no JSON, bytes
\* that are no text, a JSON object, another JSON value
FileKind(f) ==
    IF f.state # "written" THEN f.state
    ELSE IF f.content \in OtherJson THEN "other" ELSE "object"

\* no file, and the files that do not hold a mapping of users to entry lists
BadFiles ==
    {MissingFile, CorruptFile, UndecodableFile} \cup {OtherFile(v) : v \in OtherJson}

\* the file at process start, the add_memory calls and the compactions behind it
InitialFiles(configured) ==
    {[file |-> f, appended |-> 0, compactions |-> 0] :
        f \in {MissingFile, CorruptFile, WrittenFile(EmptyMap),
               WrittenFile(user_name :> <<>>)}}
    \cup {[file |-> WrittenFile(Replay(k, configured).memories), appended |-> k,
           compactions |-> Replay(k, configured).compactions] : k \in EarlierRuns}

----------------------------------------------------------------------------
(* The state machine *)

Init ==
    /\ mem0 \in BOOLEAN
    /\ \E f \in InitialFiles(mem0) :
         /\ file = f.file
         /\ appended = f.appended
         /\ started = f.appended
         /\ compactions = f.compactions
    /\ persistent_memories = load_memory_file(file).memories
    /\ now = 0
    /\ specials = 0
    /\ fails = 0
    /\ history = <<>>
    /\ call = [op |-> "start", in |-> NoInput, before |-> EmptyMap,
               returned |-> "ok", value |-> "", compacted |-> FALSE, saved |-> FALSE,
               summarized |-> <<>>]
    /\ llm_instance = TRUE
    /\ turns = [t \in TurnIds |-> IdleTurn]
    /\ waiting = NotWaiting
    /\ NoTimers

\* the process starts with no file, or with one this program did not write
InitBadFile ==
    /\ mem0 \in BOOLEAN
    /\ file \in BadFiles
    /\ appended = 0
    /\ started = 0
    /\ compactions = 0
    /\ persistent_memories = load_memory_file(file).memories
    /\ now = 0
    /\ specials = 0
    /\ fails = 0
    /\ history = <<>>
    /\ call = [op |-> "start", in |-> NoInput, before |-> EmptyMap,
               returned |-> IF load_memory_file(file).raised THEN "raised" ELSE "ok",
               value |-> "", compacted |-> FALSE, saved |-> FALSE,
               summarized |-> <<>>]
    /\ llm_instance = TRUE
    /\ turns = [t \in TurnIds |-> IdleTurn]
    /\ waiting = NotWaiting
    /\ NoTimers

\* agent.py:100 ran to its end: the module is imported and serves calls
Running == ~(call.op = "start" /\ call.returned = "raised")

AddMemory ==
    /\ Running
    /\ appended - started < MaxAppends
    /\ \E text \in TextChoices, add \in AddChoices, save \in SaveChoices,
          t1 \in ClockAfter(now) :
         LET over == Len(Log(persistent_memories, user_name)) + 1 > HIGH_WATER
         IN  \E sum \in (IF over /\ mem0
                         THEN SummarizeChoices
                         ELSE {NotCalled}),
                t2 \in (IF over THEN ClockAfter(t1) ELSE {t1}) :
               LET in == [text |-> text, add |-> add, sum |-> sum, save |-> save,
                          t1 |-> t1, t2 |-> t2]
               IN  \E r \in {add_memory(persistent_memories, file, mem0, in)} :
                   /\ persistent_memories' = r.memories
                   /\ file' = r.file
                   /\ now' = t2
                   /\ appended' = appended + 1
                   /\ specials' = IF text \in SpecialTexts THEN specials + 1 ELSE specials
                   /\ fails' = IF IsFailure(in) THEN fails + 1 ELSE fails
                   /\ history' = Append(history, text)
                   /\ compactions' = compactions + (IF r.compacted THEN 1 ELSE 0)
                   /\ call' = [op |-> "add_memory", in |-> in,
                               before |-> persistent_memories,
                               returned |-> r.returned, value |-> "",
                               compacted |-> r.compacted, saved |-> r.saved,
                               summarized |-> r.summarized]
                   /\ UNCHANGED <<mem0, started>>
                   /\ UNCHANGED <<handlerVars, timerVars>>

GetMemorySummary ==
    /\ Running
    /\ call' = [op |-> "get_memory_summary", in |-> NoInput,
                before |-> persistent_memories,
                returned |-> IF get_memory_summary_raises(persistent_memories)
                             THEN "raised" ELSE "ok",
                value |-> IF get_memory_summary_raises(persistent_memories)
                          THEN "" ELSE get_memory_summary(persistent_memories),
                compacted |-> FALSE, saved |-> FALSE, summarized |-> <<>>]
    /\ persistent_memories' =
          IF get_memory_summary_raises(persistent_memories)
          THEN persistent_memories
          ELSE dict_get_effect(persistent_memories, user_name)
    /\ UNCHANGED <<file, mem0, now, appended, started, specials,
                   fails, history, compactions>>
    /\ UNCHANGED <<handlerVars, timerVars>>

\* save_memory_file followed by load_memory_file on the same place, as when
\* the process stops after a write and starts again
SaveAndLoad ==
    /\ Running
    /\ call.op # "save_and_load"
    /\ persistent_memories \notin OtherJson
    /\ \E f \in {save_memory_file(persistent_memories, file, "ok")} :
         \E loaded \in {load_memory_file(f)} :
           /\ file' = f
           /\ persistent_memories' = loaded.memories
           /\ call' = [op |-> "save_and_load", in |-> NoInput,
                       before |-> persistent_memories,
                       returned |-> IF loaded.raised THEN "raised" ELSE "ok",
                       value |-> "", compacted |-> FALSE, saved |-> TRUE,
                       summarized |-> <<>>]
    /\ UNCHANGED <<mem0, now, appended, started, specials, fails, history, compactions>>
    /\ UNCHANGED <<handlerVars, timerVars>>

Next == AddMemory \/ GetMemorySummary

NextRoundTrip == AddMemory \/ SaveAndLoad

Spec == Init /\ [][Next]_vars

SpecBadFile == InitBadFile /\ [][Next]_vars

SpecRoundTrip == Init /\ [][NextRoundTrip]_vars

----------------------------------------------------------------------------
(* The conversation turn handlers: on_message (agent.py:207-244) and        *)
(* chat_endpoint (agent.py:305-331).  The handlers are coroutines on the    *)
(* one event loop of the process: a handler is left only at an await, so an *)
(* action is the code of a handler from one await to the next.  add_memory  *)
(* and get_memory_summary are plain functions and hold no await.  A process *)
(* serves LiveKit sessions or HTTP requests, not both (agent.py:336-356).   *)

USER_PREFIX == "User: "

HTTP_PREFIX == "User (HTTP): "

ASSISTANT_PREFIX == "Assistant: "

SILENT == "[Tool executed silently]"

ERROR_MSG == "Um, sorry, I hit an error while thinking."

\* what the user says in turn t
Utterance(t) == "u" \o ToString(t)

\* what the model call of turn t does: it raises, or returns a reply, which
\* is empty when a tool did the work.  Without a model every call raises.
LlmOutcomes(t) ==
    {[raise |-> TRUE, reply |-> ""]}
    \cup (IF llm_instance
          THEN {[raise |-> FALSE, reply |-> "r" \o ToString(t)],
                [raise |-> FALSE, reply |-> ""]}
          ELSE {})

\* speech_utils.py:6-25: blank text is returned as it is; other text may get
\* laughter put in, at random
process_speech(text, laugh) ==
    IF text = "" THEN text
    ELSE IF laugh THEN text \o " haha" ELSE text

\* the inputs of an add_memory call made by a handler: mem0 answers, the
\* clock stands still, the write does as save says
TurnInput(text, save) ==
    [text |-> text,
     add |-> IF mem0 THEN "ok" ELSE "none",
     sum |-> IF mem0 /\ Len(Log(persistent_memories, user_name)) + 1 > HIGH_WATER
             THEN CHOOSE o \in SummarizeOutcomes : ~o.raise
             ELSE NotCalled,
     save |-> save, t1 |-> now, t2 |-> now]

\* the call add_memory(text) of a handler
Remember(text, save) ==
    \E r \in {add_memory(persistent_memories, file, mem0, TurnInput(text, save))} :
        /\ persistent_memories' = r.memories
        /\ file' = r.file
        /\ appended' = appended + 1
        /\ fails' = IF save # "ok" THEN fails + 1 ELSE fails
        /\ history' = Append(history, text)
        /\ compactions' = compactions + (IF r.compacted THEN 1 ELSE 0)
        /\ call' = [op |-> "add_memory", in |-> TurnInput(text, save),
                    before |-> persistent_memories,
                    returned |-> r.returned, value |-> "",
                    compacted |-> r.compacted, saved |-> r.saved,
                    summarized |-> r.summarized]
        /\ UNCHANGED <<mem0, now, started, specials, llm_instance, waiting, timerVars>>

\* the context read before the utterance is appended
store_at_context_read_early(before, after) == before

\* agent.py:212-227, 311-317: add_memory has returned when get_memory_summary
\* is called, and no await stands between the two calls: the context is read
\* from the store as add_memory left it
store_at_context_read(before, after) == after

\* the step of a handler that calls nothing of the store
StoreUntouched ==
    UNCHANGED <<persistent_memories, file, mem0, now, appended, started, specials,
                fails, history, compactions, call, llm_instance, waiting, timerVars>>

\* agent.py:207-229: a message comes in; the handler runs up to the await of
\* self.generate.  The utterances modelled name no mode, so current_mode stays.
OnMessage(t) ==
    /\ turns[t].pc = "idle"
    /\ \A o \in TurnIds : turns[o].kind \in {"none", "on_message"}
    /\ \E role \in {"user", "assistant"}, save \in SaveChoices :
         IF role # "user"
         THEN /\ save = "ok"
              /\ turns' = [turns EXCEPT ![t] =
                              [@ EXCEPT !.pc = "done", !.kind = "on_message",
                                        !.result = "returned"]]
              /\ StoreUntouched
         ELSE /\ Remember(USER_PREFIX \o Utterance(t), save)
              /\ turns' = [turns EXCEPT ![t] =
                    IF call'.returned = "raised"
                    THEN [@ EXCEPT !.pc = "done", !.kind = "on_message",
                                   !.text = Utterance(t), !.result = "raised"]
                    ELSE [@ EXCEPT !.pc = "generating", !.kind = "on_message",
                                   !.text = Utterance(t),
                                   !.context = get_memory_summary(
                                       store_at_context_read(persistent_memories,
                                                             persistent_memories')),
                                   !.logged = Append(@, USER_PREFIX \o Utterance(t))]]

\* agent.py:229-240: self.generate is over.  A reply that is not blank is
\* about to be sent (await at line 236); a blank one is not sent and line 244
\* runs at once; an exception leads to the await at line 242, and
\* natural_reply (line 232) has not been assigned.
OnMessageReplied(t) ==
    /\ turns[t].pc = "generating"
    /\ turns[t].kind = "on_message"
    /\ \E o \in LlmOutcomes(t), laugh \in BOOLEAN, save \in SaveChoices :
         IF o.raise
         THEN /\ ~laugh /\ save = "ok"
              /\ turns' = [turns EXCEPT ![t] = [@ EXCEPT !.pc = "sending_error"]]
              /\ StoreUntouched
         ELSE IF process_speech(o.reply, laugh) # ""
         THEN /\ save = "ok"
              /\ turns' = [turns EXCEPT ![t] =
                              [@ EXCEPT !.pc = "sending",
                                        !.natural_reply = process_speech(o.reply, laugh)]]
              /\ StoreUntouched
         ELSE /\ ~laugh
              /\ Remember(ASSISTANT_PREFIX \o SILENT, save)
              /\ turns' = [turns EXCEPT ![t] =
                              [@ EXCEPT !.pc = "done",
                                        !.logged = Append(@, ASSISTANT_PREFIX \o SILENT),
                                        !.result = IF call'.returned = "raised"
                                                   THEN "raised" ELSE "returned"]]

\* agent.py:236-244: send_message is over; the message is taken to be
\* delivered.  After the reply, line 244 logs it.  After the error message,
\* line 244 reads natural_reply, which is not bound: UnboundLocalError.
OnMessageSent(t) ==
    /\ turns[t].pc \in {"sending", "sending_error"}
    /\ \E save \in SaveChoices :
         IF turns[t].pc = "sending"
         THEN /\ Remember(ASSISTANT_PREFIX \o turns[t].natural_reply, save)
              /\ turns' = [turns EXCEPT ![t] =
                    [@ EXCEPT !.pc = "done",
                              !.sent = Append(@, turns[t].natural_reply),
                              !.logged = Append(@, ASSISTANT_PREFIX \o turns[t].natural_reply),
                              !.result = IF call'.returned = "raised"
                                         THEN "raised" ELSE "returned"]]
         ELSE /\ save = "ok"
              /\ turns' = [turns EXCEPT ![t] =
                    [@ EXCEPT !.pc = "done",
                              !.sent = Append(@, process_speech(ERROR_MSG, FALSE)),
                              !.result = "raised"]]
              /\ StoreUntouched

\* agent.py:305-322: a request comes in; the handler runs up to the await of
\* agent.llm.generate, or answers 503 before anything is logged
ChatEndpoint(t) ==
    /\ turns[t].pc = "idle"
    /\ \A o \in TurnIds : turns[o].kind \in {"none", "chat_endpoint"}
    /\ \E save \in SaveChoices :
         IF ~llm_instance
         THEN /\ save = "ok"
              /\ turns' = [turns EXCEPT ![t] =
                              [@ EXCEPT !.pc = "done", !.kind = "chat_endpoint",
                                        !.text = Utterance(t), !.result = "http_503"]]
              /\ StoreUntouched
         ELSE /\ Remember(HTTP_PREFIX \o Utterance(t), save)
              /\ turns' = [turns EXCEPT ![t] =
                    IF call'.returned = "raised"
                    THEN [@ EXCEPT !.pc = "done", !.kind = "chat_endpoint",
                                   !.text = Utterance(t), !.result = "raised"]
                    ELSE [@ EXCEPT !.pc = "generating", !.kind = "chat_endpoint",
                                   !.text = Utterance(t),
                                   !.context = get_memory_summary(
                                       store_at_context_read(persistent_memories,
                                                             persistent_memories')),
                                   !.logged = Append(@, HTTP_PREFIX \o Utterance(t))]]

\* agent.py:322-331: agent.llm.generate is over.  A reply is logged and
\* returned as the response; an exception becomes HTTPException 500 and
\* nothing is logged.
ChatReplied(t) ==
    /\ turns[t].pc = "generating"
    /\ turns[t].kind = "chat_endpoint"
    /\ \E o \in LlmOutcomes(t), laugh \in BOOLEAN, save \in SaveChoices :
         IF o.raise
         THEN /\ ~laugh /\ save = "ok"
              /\ turns' = [turns EXCEPT ![t] =
                              [@ EXCEPT !.pc = "done", !.result = "http_500"]]
              /\ StoreUntouched
         ELSE /\ (o.reply = "" => ~laugh)
              /\ Remember(ASSISTANT_PREFIX \o process_speech(o.reply, laugh), save)
              /\ turns' = [turns EXCEPT ![t] =
                    [@ EXCEPT !.pc = "done",
                              !.natural_reply = process_speech(o.reply, laugh),
                              !.sent = IF call'.returned = "raised"
                                       THEN @
                                       ELSE Append(@, process_speech(o.reply, laugh)),
                              !.logged = Append(@, ASSISTANT_PREFIX
                                                     \o process_speech(o.reply, laugh)),
                              !.result = IF call'.returned = "raised"
                                         THEN "http_500" ELSE "returned"]]

\* the files a process that serves turns starts from: none, and the one an
\* earlier run left short of the first compaction
TurnFiles(configured) ==
    {f \in InitialFiles(configured) :
        f.file = MissingFile \/ f.appended = FirstCompaction - Lead}

InitTurns ==
    /\ mem0 \in BOOLEAN
    /\ \E f \in TurnFiles(mem0) :
         /\ file = f.file
         /\ appended = f.appended
         /\ started = f.appended
         /\ compactions = f.compactions
    /\ persistent_memories = load_memory_file(file).memories
    /\ now = 0
    /\ specials = 0
    /\ fails = 0
    /\ history = <<>>
    /\ call = [op |-> "start", in |-> NoInput, before |-> EmptyMap,
               returned |-> "ok", value |-> "", compacted |-> FALSE, saved |-> FALSE,
               summarized |-> <<>>]
    /\ llm_instance \in BOOLEAN
    /\ turns = [t \in TurnIds |-> IdleTurn]
    /\ waiting = NotWaiting
    /\ NoTimers

NextTurns ==
    \E t \in TurnIds :
        \/ OnMessage(t)
        \/ OnMessageReplied(t)
        \/ OnMessageSent(t)
        \/ ChatEndpoint(t)
        \/ ChatReplied(t)

SpecTurns == InitTurns /\ [][NextTurns]_vars

----------------------------------------------------------------------------
(* add_memory with its calls of mem0 taken apart.  mem0.add (agent.py:106)  *)
(* and mem0.summarize (agent.py:131) are blocking calls over the network,   *)
(* made without a timeout: add_memory goes on when the call returns or      *)
(* raises, and nothing else ends the wait.  Whether and when mem0 answers   *)
(* is up to mem0; the steps of add_memory itself are taken when they can be.*)

\* agent.py:102-106: add_memory(text) is called and calls mem0.add
CallMem0Add ==
    /\ waiting.at = "none"
    /\ appended - started < MaxAppends
    /\ \E text \in TextChoices :
         /\ waiting' = [at |-> "mem0.add", answered |-> FALSE,
                        in |-> [NoInput EXCEPT !.text = text],
                        before |-> persistent_memories]
         /\ appended' = appended + 1
         /\ specials' = IF text \in SpecialTexts THEN specials + 1 ELSE specials
         /\ history' = Append(history, text)
    /\ UNCHANGED <<persistent_memories, file, mem0, now, started, fails, compactions,
                   call, llm_instance, turns, timerVars>>

\* mem0.add returns or raises
Mem0AddAnswers ==
    /\ waiting.at = "mem0.add"
    /\ ~waiting.answered
    /\ \E add \in AddChoices :
         /\ waiting' = [waiting EXCEPT !.answered = TRUE, !.in.add = add]
         /\ fails' = IF add = "raise" THEN fails + 1 ELSE fails
    /\ UNCHANGED <<persistent_memories, file, mem0, now, appended, started, specials,
                   history, compactions, call, llm_instance, turns, timerVars>>

\* agent.py:107-130: add_memory goes on after mem0.add: it appends and, on
\* a log within the mark, writes the file and returns; on a longer log it
\* calls mem0.summarize
AfterMem0Add ==
    /\ waiting.at = "mem0.add"
    /\ waiting.answered
    /\ \E t1 \in ClockAfter(now), save \in SaveChoices :
         LET in == [waiting.in EXCEPT !.t1 = t1, !.t2 = t1, !.save = save]
             grown == append_entry(persistent_memories, user_name, in.text, t1)
         IN  IF needs_compaction(grown, user_name)
             THEN /\ save = "ok"
                  /\ persistent_memories' = grown
                  /\ waiting' = [at |-> "mem0.summarize", answered |-> FALSE,
                                 in |-> in, before |-> waiting.before]
                  /\ now' = t1
                  /\ UNCHANGED <<file, fails, compactions, call>>
             ELSE \E r \in {add_memory(persistent_memories, file, mem0, in)} :
                  /\ persistent_memories' = r.memories
                  /\ file' = r.file
                  /\ waiting' = NotWaiting
                  /\ now' = t1
                  /\ fails' = IF save # "ok" THEN fails + 1 ELSE fails
                  /\ call' = [op |-> "add_memory", in |-> in,
                              before |-> waiting.before,
                              returned |-> r.returned, value |-> "",
                              compacted |-> r.compacted, saved |-> r.saved,
                              summarized |-> r.summarized]
                  /\ UNCHANGED compactions
    /\ UNCHANGED <<mem0, appended, started, specials, history, llm_instance, turns, timerVars>>

\* mem0.summarize returns or raises
Mem0SummarizeAnswers ==
    /\ waiting.at = "mem0.summarize"
    /\ ~waiting.answered
    /\ \E sum \in SummarizeChoices :
         /\ waiting' = [waiting EXCEPT !.answered = TRUE, !.in.sum = sum]
         /\ fails' = IF sum.raise THEN fails + 1 ELSE fails
    /\ UNCHANGED <<persistent_memories, file, mem0, now, appended, started, specials,
                   history, compactions, call, llm_instance, turns, timerVars>>

\* agent.py:132-143, 122: add_memory goes on after mem0.summarize: the log is
\* compacted, the file is written, add_memory returns
AfterMem0Summarize ==
    /\ waiting.at = "mem0.summarize"
    /\ waiting.answered
    /\ \E t2 \in ClockAfter(now), save \in SaveChoices :
         LET in == [waiting.in EXCEPT !.t2 = t2, !.save = save]
         IN  \E comp \in {summarize_old_memories(persistent_memories, user_name,
                                                 mem0, in.sum, t2)} :
             /\ persistent_memories' = comp.memories
             /\ file' = save_memory_file(comp.memories, file, save)
             /\ waiting' = NotWaiting
             /\ now' = t2
             /\ fails' = IF save # "ok" THEN fails + 1 ELSE fails
             /\ compactions' = compactions + 1
             /\ call' = [op |-> "add_memory", in |-> in, before |-> waiting.before,
                         returned |-> "ok", value |-> "",
                         compacted |-> TRUE, saved |-> TRUE,
                         summarized |-> comp.asked]
    /\ UNCHANGED <<mem0, appended, started, specials, history, llm_instance, turns, timerVars>>

\* a process with mem0 configured
InitBlocking ==
    /\ mem0 = TRUE
    /\ \E f \in InitialFiles(mem0) :
         /\ file = f.file
         /\ appended = f.appended
         /\ started = f.appended
         /\ compactions = f.compactions
    /\ persistent_memories = load_memory_file(file).memories
    /\ now = 0
    /\ specials = 0
    /\ fails = 0
    /\ history = <<>>
    /\ call = [op |-> "start", in |-> NoInput, before |-> EmptyMap,
               returned |-> "ok", value |-> "", compacted |-> FALSE, saved |-> FALSE,
               summarized |-> <<>>]
    /\ llm_instance = TRUE
    /\ turns = [t \in TurnIds |-> IdleTurn]
    /\ waiting = NotWaiting
    /\ NoTimers

\* the steps of mem0
Mem0Steps == Mem0AddAnswers \/ Mem0SummarizeAnswers

\* the steps of add_memory
LocalSteps == CallMem0Add \/ AfterMem0Add \/ AfterMem0Summarize

NextBlocking == LocalSteps \/ Mem0Steps

\* add_memory takes its steps; mem0 need not answer
SpecBlocking == InitBlocking /\ [][NextBlocking]_vars /\ WF_vars(LocalSteps)

----------------------------------------------------------------------------
(* The timer tools of src/tools.py: the mapping active_timers, set_timer,   *)
(* the thread each set_timer call starts (timer_thread) and check_timer.    *)
(* The tools are coroutines on the event loop; neither holds an await, so   *)
(* each runs as one step.  A timer thread sleeps and then makes one         *)
(* assignment to active_timers, at any moment from its wake-up time on.     *)
(* Time is counted in minutes (set_timer sleeps minutes * 60 seconds);      *)
(* minutes is not negative.                                                 *)

\* tools.py:136: the lowest id random.randint(1000, 9999) returns
FIRST_TIMER_ID == 1000

\* tools.py:136: the ids random.randint draws from
TimerIds == FIRST_TIMER_ID..(FIRST_TIMER_ID + MaxTimerIds - 1)

\* active_timers.get(timer_id, "NOT_FOUND")
timer_status(timers, timer_id) ==
    IF timer_id \in DOMAIN timers THEN timers[timer_id] ELSE "NOT_FOUND"

\* active_timers[timer_id] = status
timer_assign(timers, timer_id, status) == (timer_id :> status) @@ timers

\* del active_timers[timer_id]
timer_delete(timers, timer_id) ==
    [id \in DOMAIN timers \ {timer_id} |-> timers[id]]

\* tools.py:136: random.randint(1000, 9999) knows nothing of active_timers
random_timer_ids(timers) == TimerIds

\* tools.py:155-162: the answer of check_timer
check_timer_result(timer_id, status) ==
    IF status = "DONE"
    THEN "Timer " \o ToString(timer_id) \o " is DONE! Time's up!"
    ELSE IF status = "RUNNING"
    THEN "Timer " \o ToString(timer_id) \o " is still running."
    ELSE "Timer " \o ToString(timer_id) \o " not found."

\* tools.py:131-146
SetTimer ==
    /\ Len(set_timers) < MaxSetTimers
    /\ \E minutes \in 0..MaxMinutes, timer_id \in random_timer_ids(active_timers) :
         /\ active_timers' = timer_assign(active_timers, timer_id, "RUNNING")
         /\ threads' = threads \cup {[n |-> Len(set_timers) + 1, timer_id |-> timer_id,
                                      wake |-> elapsed + minutes]}
         /\ set_timers' = Append(set_timers, [timer_id |-> timer_id,
                                              minutes |-> minutes, at |-> elapsed])
         /\ timer_call' = [op |-> "set_timer", timer_id |-> timer_id, result |-> ""]
    /\ UNCHANGED <<elapsed, storeVars, handlerVars>>

\* tools.py:127-129: a thread whose sleep is over marks its id
TimerThread ==
    /\ \E th \in threads :
         /\ elapsed >= th.wake
         /\ active_timers' = timer_assign(active_timers, th.timer_id, "DONE")
         /\ threads' = threads \ {th}
         /\ timer_call' = [op |-> "timer_thread", timer_id |-> th.timer_id,
                           result |-> ""]
    /\ UNCHANGED <<elapsed, set_timers, storeVars, handlerVars>>

\* tools.py:152-162
CheckTimer ==
    /\ \E timer_id \in TimerIds :
         LET status == timer_status(active_timers, timer_id)
         IN  /\ active_timers' = IF status = "DONE"
                                 THEN timer_delete(active_timers, timer_id)
                                 ELSE active_timers
             /\ timer_call' = [op |-> "check_timer", timer_id |-> timer_id,
                               result |-> check_timer_result(timer_id, status)]
    /\ UNCHANGED <<threads, elapsed, set_timers, storeVars, handlerVars>>

\* a minute goes by
Tick ==
    /\ elapsed < MaxElapsed
    /\ elapsed' = elapsed + 1
    /\ UNCHANGED <<active_timers, threads, set_timers, timer_call, storeVars,
                   handlerVars>>

\* a process whose store is empty and that has set no timer
InitTimers ==
    /\ mem0 = FALSE
    /\ file = MissingFile
    /\ persistent_memories = load_memory_file(file).memories
    /\ appended = 0
    /\ started = 0
    /\ compactions = 0
    /\ now = 0
    /\ specials = 0
    /\ fails = 0
    /\ history = <<>>
    /\ call = [op |-> "start", in |-> NoInput, before |-> EmptyMap,
               returned |-> "ok", value |-> "", compacted |-> FALSE, saved |-> FALSE,
               summarized |-> <<>>]
    /\ llm_instance = TRUE
    /\ turns = [t \in TurnIds |-> IdleTurn]
    /\ waiting = NotWaiting
    /\ NoTimers

NextTimers == SetTimer \/ TimerThread \/ CheckTimer \/ Tick

SpecTimers == InitTimers /\ [][NextTimers]_vars

----------------------------------------------------------------------------
(* Properties of the store *)

\* the user's log now, and as the last operation found it
TheLog == Log(persistent_memories, user_name)

LogBefore == Log(call.before, user_name)

\* the last operation was an add_memory call
Added == call.op = "add_memory"

\* the entry the last add_memory call made
NewEntry == [text |-> call.in.text, timestamp |-> call.in.t1]

NonDecreasing(entries) ==
    \A i \in 1..(Len(entries) - 1) :
        entries[i].timestamp <= entries[i + 1].timestamp

\* C1: an add_memory call that makes the log longer than 50 entries leaves
\* exactly 21: entry 0 is a summary entry, its text starting with
\* "Summary of past: ", and entries 1..20 are the last 20 entries of the log
\* as it stood before compaction, the new entry included, in the same order.
\* With m0..m50 appended to an empty log, entries 1..20 are m31..m50.
C1_CompactionKeepsLast20 ==
    (Added /\ Len(LogBefore) + 1 > 50) =>
        \E grown \in {LogBefore \o <<NewEntry>>} :
            /\ Len(TheLog) = 21
            /\ StartsWith(TheLog[1].text, "Summary of past: ")
            /\ \A i \in 1..20 : TheLog[i + 1] = grown[Len(grown) - 20 + i]
            /\ (/\ Len(grown) = 51
                /\ \A i \in 1..51 : grown[i].text = Msg(i - 1))
               => \A i \in 1..20 : TheLog[i + 1].text = Msg(30 + i)

\* C1 witness: m50 has just been appended to the log m0..m49
C1_Witness ==
    /\ Added
    /\ Len(LogBefore) = 50
    /\ \A i \in 1..50 : LogBefore[i].text = Msg(i - 1)
    /\ call.in.text = Msg(50)
    /\ Len(TheLog) = 21
    /\ TheLog[21].text = Msg(50)

\* C2: an add_memory call that leaves the log at 50 entries or fewer adds
\* exactly one entry at the end and changes nothing else: this holds for the
\* first call on an absent log, which creates it, and for an empty text;
\* no compaction runs.
C2_AppendOnly ==
    (Added /\ Len(LogBefore) + 1 <= 50) =>
        /\ user_name \in DOMAIN persistent_memories
        /\ TheLog = LogBefore \o <<NewEntry>>
        /\ \A u \in DOMAIN call.before \ {user_name} :
              u \in DOMAIN persistent_memories
              /\ persistent_memories[u] = call.before[u]
        /\ ~call.compacted

\* C2 witness: an empty text has just been appended to an absent log
C2_Witness ==
    /\ Added
    /\ user_name \notin DOMAIN call.before
    /\ call.in.text = ""
    /\ Len(TheLog) = 1

\* C3: the log in the file never has more than 50 entries: compaction runs
\* before the write of the add_memory call that made the log too long.
C3_FileWithinMark ==
    file.state = "written" =>
        \A u \in DOMAIN file.content : Len(file.content[u]) <= 50

\* C3 witness: the call compacted and its write succeeded
C3_Witness ==
    /\ Added
    /\ call.compacted
    /\ call.in.save = "ok"
    /\ file = WrittenFile(persistent_memories)
    /\ Len(file.content[user_name]) = 21

\* C4: while no compaction has run, the log holds the entries of all the
\* add_memory calls made on it, in the order of the calls, and their
\* timestamps do not decrease from the oldest to the newest.
C4_AppendOrder ==
    compactions = 0 =>
        /\ Len(TheLog) = started + Len(history)
        /\ \A i \in 1..started : TheLog[i].text = Msg(i - 1)
        /\ \A j \in 1..Len(history) : TheLog[started + j].text = history[j]
        /\ NonDecreasing(TheLog)

\* C4 witness: three calls or more, an unusual text among them, and the clock
\* has moved between the first and the last entry
C4_Witness ==
    /\ compactions = 0
    /\ Len(history) >= 3
    /\ \E j \in 1..Len(history) : history[j] \in SpecialTexts
    /\ TheLog[Len(TheLog)].timestamp > TheLog[1].timestamp

\* C5 as stated: in every reachable state the timestamps of the log do not
\* decrease from index 0 to the last index.
C5_AllNonDecreasing == NonDecreasing(TheLog)

\* C5 as amended: the timestamps do not decrease from index 0 until the first
\* compaction and from index 1 in every state; the summary entry a compaction
\* puts at index 0 carries the time of the compaction, which is not earlier
\* than any timestamp of the retained entries behind it.
C5_RawEntriesNonDecreasing ==
    /\ compactions = 0 => NonDecreasing(TheLog)
    /\ TheLog # <<>> => NonDecreasing(Tail(TheLog))
    /\ (Added /\ call.compacted) =>
          /\ TheLog[1].timestamp = call.in.t2
          /\ \A i \in 1..Len(TheLog) : TheLog[i].timestamp <= TheLog[1].timestamp

\* C5 witness: a compaction has left a summary entry newer than the entry behind it
C5_Witness ==
    /\ Added
    /\ call.compacted
    /\ TheLog[1].timestamp > TheLog[2].timestamp

\* C6: whatever the length of the log and the texts of its entries, the
\* string get_memory_summary returns has at most 5 lines.
C6_AtMostFiveLines ==
    call.op = "get_memory_summary" => LineCount(call.value) <= 5

\* the string that holds, for the entries i .. Len(entries) of a log in this
\* order, the marker "- " and the text of the entry, one after the other with
\* a line break in between
RECURSIVE Rendering(_, _)
Rendering(entries, i) ==
    IF i >= Len(entries)
    THEN "- " \o entries[i].text
    ELSE "- " \o entries[i].text \o "\n" \o Rendering(entries, i + 1)

Smaller(a, b) == IF a <= b THEN a ELSE b

HasLineBreak(text) == \E i \in 1..Len(text) : SubSeq(text, i, i) = "\n"

\* C7: on a log of L > 0 entries get_memory_summary returns the texts of the
\* last min(5, L) entries, the oldest of them first and the newest last, each
\* behind the marker "- " and separated by line breaks; no older entry takes
\* part, and texts without line breaks make exactly min(5, L) lines.
C7_LastFiveRendered ==
    (call.op = "get_memory_summary" /\ Len(TheLog) > 0) =>
        LET L == Len(TheLog)
            k == Smaller(5, L)
        IN  /\ call.value = Rendering(TheLog, L - k + 1)
            /\ (\A i \in (L - k + 1)..L : ~HasLineBreak(TheLog[i].text))
                  => LineCount(call.value) = k

\* C7 witness: the summary of a log longer than 5 entries whose newest text
\* is an unusual one
C7_Witness ==
    /\ call.op = "get_memory_summary"
    /\ Len(TheLog) > 5
    /\ TheLog[Len(TheLog)].text \in SpecialTexts

\* C8: get_memory_summary returns "No past memories yet." when the user has
\* no log or an empty one; it never returns the empty string; on a log with
\* entries it returns a rendering of entries, which is not that sentinel.
C8_SentinelWhenEmpty ==
    call.op = "get_memory_summary" =>
        /\ call.value # ""
        /\ TheLog = <<>> => call.value = "No past memories yet."
        /\ TheLog # <<>> =>
              /\ call.value # "No past memories yet."
              /\ StartsWith(call.value, "- ")

\* C8 witness: the summary of a log that is present and empty
C8_Witness ==
    /\ call.op = "get_memory_summary"
    /\ user_name \in DOMAIN persistent_memories
    /\ TheLog = <<>>
    /\ call.value = "No past memories yet."

\* C9 as stated: when the call to the remote summarizer fails, the summary
\* entry holds the placeholder that is used when no summarizer is configured.
C9_SamePlaceholder ==
    (Added /\ call.compacted /\ (~mem0 \/ call.in.sum.raise)) =>
        TheLog[1].text = "Summary of past: Past conversations and interactions"

\* C9 as amended: when the call to the remote summarizer fails, the text of
\* the summary entry is "Summary of past: " and the fixed placeholder
\* " (failed to summarize older memories) ", which is not the placeholder
\* "Past conversations and interactions" used when no summarizer is
\* configured.
C9_FailurePlaceholder ==
    (Added /\ call.compacted) =>
        /\ (mem0 /\ call.in.sum.raise) =>
              TheLog[1].text = "Summary of past:  (failed to summarize older memories) "
        /\ ~mem0 =>
              TheLog[1].text = "Summary of past: Past conversations and interactions"

\* C9 witness: a compaction whose call to the remote summarizer failed
C9_Witness ==
    /\ Added
    /\ call.compacted
    /\ mem0
    /\ call.in.sum.raise

\* C10: whatever mem0.add and mem0.summarize do, add_memory returns normally,
\* its entry is in the log, a log that grew past 50 entries has been
\* compacted to 21, and the file write was attempted.
C10_RemoteFailuresSwallowed ==
    Added =>
        /\ call.returned = "ok"
        /\ TheLog # <<>>
        /\ TheLog[Len(TheLog)] = NewEntry
        /\ Len(LogBefore) + 1 > 50 => Len(TheLog) = 21
        /\ call.saved

\* C10 witness: mem0.add and mem0.summarize both raised in a compacting call
C10_Witness ==
    /\ Added
    /\ call.in.add = "raise"
    /\ call.in.sum.raise
    /\ Len(LogBefore) = 50
    /\ call.returned = "ok"

----------------------------------------------------------------------------
(* C11: loading a missing or malformed file gives the empty mapping and     *)
(* never raises, and every append on a store loaded this way succeeds.      *)
(* Stated for the runs of SpecBadFile, which all start from such a file.    *)

C11_MalformedLoadsEmpty ==
    /\ (call.op = "start" /\ FileKind(file) # "object") =>
           (call.returned = "ok" /\ persistent_memories = EmptyMap)
    /\ Added => call.returned = "ok"

----------------------------------------------------------------------------
(* C12: for every store reached through appends and compactions, the        *)
(* mapping load_memory_file reads from the file save_memory_file has just   *)
(* written equals the mapping that was saved: same users, same entries with *)
(* the same text and timestamp, in the same order.                          *)

C12_RoundTrip ==
    call.op = "save_and_load" =>
        (call.returned = "ok" /\ persistent_memories = call.before)

C12_Witness ==
    /\ call.op = "save_and_load"
    /\ compactions >= 1
    /\ persistent_memories = call.before
    /\ \E i \in 1..Len(TheLog) :
         \E k \in 1..Len(TheLog[i].text) : SubSeq(TheLog[i].text, k, k) = QUOTE

----------------------------------------------------------------------------
(* The file as load_memory_file would read it *)

\* the user's entries in the document the file holds
FileLog ==
    IF file.state = "written" /\ file.content \notin OtherJson
       /\ user_name \in DOMAIN file.content
    THEN file.content[user_name]
    ELSE <<>>

\* the texts json.load reads from the last n entries of the file
LastFileTexts(n) ==
    [i \in 1..n |-> json_parse_string(FileLog[Len(FileLog) - n + i].text).str]

\* the entry the last add_memory call made is the last entry of the file
Persisted ==
    /\ FileLog # <<>>
    /\ LastFileTexts(1) = <<call.in.text>>
    /\ FileLog[Len(FileLog)].timestamp = call.in.t1

EndsWith(s, p) ==
    Len(s) >= Len(p) /\ SubSeq(s, Len(s) - Len(p) + 1, Len(s)) = p

\* C13: whenever add_memory has returned and its file write succeeded, the
\* file holds the whole in-memory mapping as it is after the call: after the
\* compaction, when the call compacted.
C13_FlushedWhenWritten ==
    (Added /\ call.returned = "ok" /\ call.in.save = "ok") =>
        /\ call.saved
        /\ file = WrittenFile(persistent_memories)

\* C13 witness: the second compaction of the log has just been written
C13_Witness ==
    /\ Added
    /\ call.compacted
    /\ compactions = 2
    /\ call.in.save = "ok"
    /\ load_memory_file(file).memories = persistent_memories
    /\ Len(TheLog) = KEEP_RECENT + 1

\* C14: a failed file write does not fail add_memory: the call returns, the
\* appended entry is the last of the in-memory log, get_memory_summary goes on
\* rendering the in-memory log, and the next add_memory call whose write
\* succeeds leaves in the file every text this process appended, those whose
\* own write had failed included.
C14_WriteFailureSwallowed ==
    /\ (Added /\ call.in.save # "ok") =>
          /\ call.returned = "ok"
          /\ TheLog # <<>>
          /\ TheLog[Len(TheLog)] = NewEntry
    /\ (/\ call.op = "get_memory_summary"
        /\ TheLog # <<>>
        /\ file # WrittenFile(persistent_memories)) =>
          /\ call.returned = "ok"
          /\ EndsWith(call.value, MARKER \o TheLog[Len(TheLog)].text)
    /\ (Added /\ call.in.save = "ok") =>
          /\ Len(FileLog) >= Len(history)
          /\ LastFileTexts(Len(history)) = history
          /\ file = WrittenFile(persistent_memories)

\* C14 witness: without mem0 only a write can fail; one has failed in an
\* earlier call, and the write of this call succeeded
C14_Witness ==
    /\ Added
    /\ ~mem0
    /\ fails = 1
    /\ call.in.save = "ok"
    /\ Len(history) >= 2
    /\ LastFileTexts(Len(history)) = history
    /\ file = WrittenFile(persistent_memories)

\* C18: get_memory_summary only reads: a call leaves the in-memory mapping
\* as it was (a user without a log stays without one) and leaves the file as
\* it was, and a call made right after another returns the same string.
C18_PureRead ==
    [][call'.op = "get_memory_summary" =>
          /\ persistent_memories' = persistent_memories
          /\ file' = file
          /\ call.op = "get_memory_summary" => call'.value = call.value]_vars

\* C18 witness: a call on a mapping without the user, with no file on disk
C18_Witness ==
    /\ call.op = "get_memory_summary"
    /\ call.returned = "ok"
    /\ user_name \notin DOMAIN persistent_memories
    /\ file = MissingFile

\* C19 as stated: add_memory never returns normally while the entry it added
\* is missing from the file.
C19_PersistedOrRaised ==
    (Added /\ call.returned = "ok") => Persisted

\* C19 as amended: add_memory always returns normally; the entry it added is
\* missing from the file on return only when the write of this call failed,
\* and then the entry is the last of the in-memory log.
C19_MissingOnlyAfterFailedWrite ==
    Added =>
        /\ call.returned = "ok"
        /\ \/ Persisted
           \/ /\ call.in.save # "ok"
              /\ TheLog # <<>>
              /\ TheLog[Len(TheLog)] = NewEntry

\* C19 witness: json.dump failed after open() had emptied the file
C19_Witness ==
    /\ Added
    /\ call.returned = "ok"
    /\ call.in.save = "dump_failed"
    /\ file = CorruptFile
    /\ ~Persisted
    /\ TheLog[Len(TheLog)] = NewEntry

\* the first n of the texts, one after the other with one space in between
RECURSIVE SpaceJoined(_, _)
SpaceJoined(texts, n) ==
    IF n = 0 THEN ""
    ELSE IF n = 1 THEN texts[1]
    ELSE SpaceJoined(texts, n - 1) \o " " \o texts[n]

\* C20: a compaction splits the log into the last 20 entries and the old
\* entries before them; mem0.summarize, when mem0 is configured, is called
\* once, with the texts of all old entries in log order joined by single
\* spaces, and from the second compaction on the first of these texts is the
\* summary entry the previous compaction made.  No other call asks mem0 for
\* a summary.
C20_SummarizerGetsOldTexts ==
    /\ (Added /\ call.compacted) =>
          \E grown \in {LogBefore \o <<NewEntry>>} :
          LET n == Len(grown) - KEEP_RECENT
          IN  /\ call.summarized =
                    IF mem0 THEN <<SpaceJoined(Texts(grown), n)>> ELSE <<>>
              /\ \A i \in 1..KEEP_RECENT : TheLog[i + 1] = grown[n + i]
              /\ (mem0 /\ compactions >= 2) =>
                    /\ StartsWith(LogBefore[1].text, SUMMARY_PREFIX)
                    /\ StartsWith(call.summarized[1], LogBefore[1].text \o " ")
    /\ (Added /\ ~call.compacted) => call.summarized = <<>>

\* C20 witness: the second compaction, with mem0 configured
C20_Witness ==
    /\ Added
    /\ call.compacted
    /\ mem0
    /\ compactions = 2
    /\ Len(call.summarized) = 1
    /\ StartsWith(call.summarized[1], SUMMARY_PREFIX)

----------------------------------------------------------------------------
(* Properties of the turn handlers *)

\* the turns that have come in with a user's utterance
UserTurns == {t \in TurnIds : turns[t].text # ""}

\* the number of add_memory calls the turns 1 .. n have made
RECURSIVE CallsOf(_)
CallsOf(n) == IF n = 0 THEN 0 ELSE Len(turns[n].logged) + CallsOf(n - 1)

\* the texts xs[i..] are found in ys[j..], in this order
RECURSIVE Embedded(_, _, _, _)
Embedded(xs, i, ys, j) ==
    IF i > Len(xs) THEN TRUE
    ELSE IF j > Len(ys) THEN FALSE
    ELSE IF xs[i] = ys[j] THEN Embedded(xs, i + 1, ys, j + 1)
    ELSE Embedded(xs, i, ys, j + 1)

\* C15: with several turns in flight, the add_memory calls of the handlers
\* take effect one after the other: the log ends with the texts of all
\* calls made, none lost or overwritten, in the order in which add_memory was
\* called, and so does the file after every call whose write succeeded.
C15_AppendsSerialized ==
    LET n == Len(history)
    IN  /\ Len(TheLog) >= n
        /\ LastN(Texts(TheLog), n) = history
        /\ n = CallsOf(MaxTurns)
        /\ \A t \in TurnIds : Embedded(turns[t].logged, 1, history, 1)
        /\ (Added /\ call.in.save = "ok") =>
              /\ Len(FileLog) >= n
              /\ LastFileTexts(n) = history

\* C15 witness: two turns were in flight together: the second came in while
\* the first waited for the model and ended before it; the log was compacted
\* on the way
C15_Witness ==
    /\ \A t \in {1, 2} : turns[t].pc = "done" /\ Len(turns[t].logged) = 2
    /\ Len(history) = 4
    /\ history[1] = turns[1].logged[1]
    /\ history[2] = turns[2].logged[1]
    /\ history[3] = turns[2].logged[2]
    /\ history[4] = turns[1].logged[2]
    /\ compactions = 1
    /\ LastN(Texts(TheLog), 4) = history
    /\ LastFileTexts(4) = history

\* C17: in every turn the user's utterance is appended to the log, every
\* reply sent to the user in the turn, one sent after the model call failed
\* included, is appended after it, and the handler ends without raising.
C17_TurnLogged ==
    \A t \in UserTurns :
        /\ turns[t].logged # <<>>
        /\ turns[t].logged[1] \in {USER_PREFIX \o turns[t].text,
                                   HTTP_PREFIX \o turns[t].text}
        /\ turns[t].pc = "done" =>
              /\ turns[t].result = "returned"
              /\ \A i \in 1..Len(turns[t].sent) :
                    \E j \in 2..Len(turns[t].logged) :
                        turns[t].logged[j] = ASSISTANT_PREFIX \o turns[t].sent[i]

----------------------------------------------------------------------------
(* C16: every add_memory call that has started goes on to append its entry  *)
(* and to write the file, whatever mem0 does: a call of mem0 that never     *)
(* answers is ended by a timeout, and the append and the write still happen.*)

C16_AppendCompletes ==
    (waiting.at # "none") ~> (waiting.at = "none" /\ Added /\ call.saved)

----------------------------------------------------------------------------
(* C21: entries are immutable.  Across every add_memory call (compacting or *)
(* not) and every get_memory_summary call, the raw entries of the log       *)
(* afterwards are the entries it held before, the new entry behind them,    *)
(* less some number of the oldest: same text, same timestamp, same order.   *)
(* Entries are dropped in a compaction only.                                *)

\* the entries the operation found or was given
Offered == IF Added THEN LogBefore \o <<NewEntry>> ELSE LogBefore

\* the entries the operation left, the summary entry of its compaction apart
Kept == IF Added /\ call.compacted THEN Tail(TheLog) ELSE TheLog

C21_EntriesImmutable ==
    call.op \in {"add_memory", "get_memory_summary"} =>
        \E offered \in {Offered}, kept \in {Kept} :
            LET dropped == Len(offered) - Len(kept)
            IN  /\ dropped >= 0
                /\ \A i \in 1..Len(kept) : kept[i] = offered[dropped + i]
                /\ dropped > 0 => (Added /\ call.compacted)

\* C21 witness: a compaction has dropped entries and kept 20 whose
\* timestamps are older than the compaction
C21_Witness ==
    /\ Added
    /\ call.compacted
    /\ Len(Offered) - Len(Kept) = 31
    /\ Kept[1].timestamp < call.in.t2
    /\ Kept[1] = Offered[32]

----------------------------------------------------------------------------
(* C22: the log cycles EMPTY -> GROWING -> COMPACTED -> GROWING.  Counting  *)
(* the add_memory calls from the empty log: after every call the length is  *)
(* between 1 and 50; the log is the calls made while there are 50 or fewer; *)
(* the 51st call is the first to compact; from then on the length is never  *)
(* below 21, and a call compacts exactly when it is the 30th after the last *)
(* compaction.                                                              *)

C22_GrowCompactCycle ==
    /\ appended = 0 => Len(TheLog) = 0
    /\ appended >= 1 => (1 <= Len(TheLog) /\ Len(TheLog) <= 50)
    /\ appended <= 50 => (Len(TheLog) = appended /\ compactions = 0)
    /\ appended >= 51 =>
          /\ compactions = 1 + ((appended - 51) \div 30)
          /\ Len(TheLog) = 21 + ((appended - 51) % 30)
    /\ Added =>
          (call.compacted <=> (appended >= 51 /\ (appended - 51) % 30 = 0))

\* C22 witness: the 81st call has just made the second compaction, 30 calls
\* after the first
C22_Witness ==
    /\ Added
    /\ call.compacted
    /\ appended = 81
    /\ compactions = 2
    /\ Len(LogBefore) = 50
    /\ Len(TheLog) = 21

----------------------------------------------------------------------------
(* C23: when no text given to add_memory starts with "Summary of past: ",   *)
(* the log holds at most one summary entry, and that one at index 0: a      *)
(* compaction puts its summary entry there and keeps 20 raw entries, so the *)
(* summary entry of the compaction before goes with the old entries.        *)

IsSummary(entry) == StartsWith(entry.text, "Summary of past: ")

PlainTextsOnly == \A j \in 1..Len(history) : ~StartsWith(history[j], "Summary of past: ")

C23_OneSummaryAtFront ==
    PlainTextsOnly =>
        /\ \A i \in 2..Len(TheLog) : ~IsSummary(TheLog[i])
        /\ (compactions >= 1) <=> (TheLog # <<>> /\ IsSummary(TheLog[1]))

\* C23 witness: the second compaction has just replaced the summary entry of
\* the first
C23_Witness ==
    /\ PlainTextsOnly
    /\ Added
    /\ call.compacted
    /\ compactions = 2
    /\ IsSummary(LogBefore[1])
    /\ IsSummary(TheLog[1])
    /\ TheLog[1].timestamp > LogBefore[1].timestamp
    /\ ~IsSummary(TheLog[2])

----------------------------------------------------------------------------
(* C24: no memory is lost without a trace.  An entry leaves the log only in *)
(* a compaction (C21), and the text of every entry a compaction drops, the  *)
(* summary entry of the compaction before among them, is part of the text   *)
(* given to mem0.summarize in that compaction.                              *)

\* text p stands in the space-joined text s as one of the joined texts
JoinedIn(s, p) ==
    \E hay \in {" " \o s \o " "}, needle \in {" " \o p \o " "} :
        \E i \in 1..(Len(hay) - Len(needle) + 1) :
            SubSeq(hay, i, i + Len(needle) - 1) = needle

\* the entries the compaction of the last call dropped
Dropped == SubSeq(Offered, 1, Len(Offered) - Len(Kept))

\* the texts of entries[i..] stand in the text asked from position pos on,
\* one after the other with one character in between
RECURSIVE PassedFrom(_, _, _, _)
PassedFrom(asked, entries, i, pos) ==
    IF i > Len(entries) THEN TRUE
    ELSE /\ pos + Len(entries[i].text) - 1 <= Len(asked)
         /\ SubSeq(asked, pos, pos + Len(entries[i].text) - 1) = entries[i].text
         /\ PassedFrom(asked, entries, i + 1, pos + Len(entries[i].text) + 1)

DroppedWerePassedOn ==
    /\ Len(call.summarized) = 1
    /\ \E dropped \in {Dropped} : PassedFrom(call.summarized[1], dropped, 1, 1)

\* C24 as stated: with or without mem0, what a compaction drops was given to
\* the remote summarizer
C24_NothingLost ==
    (Added /\ call.compacted) => DroppedWerePassedOn

\* C24 as amended: with mem0 configured, what a compaction drops was given
\* to mem0.summarize, whether that call returned or raised; without mem0
\* nothing is given to anyone and the summary entry is the fixed text
C24_PassedOnWhenConfigured ==
    (Added /\ call.compacted) =>
        IF mem0
        THEN DroppedWerePassedOn
        ELSE /\ call.summarized = <<>>
             /\ TheLog[1].text = "Summary of past: Past conversations and interactions"

\* C24 witness: the second compaction with mem0 configured has dropped the
\* summary entry of the first, and mem0.summarize was given its text
C24_Witness ==
    /\ Added
    /\ call.compacted
    /\ mem0
    /\ compactions = 2
    /\ Len(Dropped) = 31
    /\ IsSummary(Dropped[1])
    /\ JoinedIn(call.summarized[1], Dropped[1].text)

----------------------------------------------------------------------------
(* C25: in every turn that gets as far as the model call, the last line of  *)
(* the context handed to the model is the entry of the turn's own user      *)
(* utterance, also when another turn is in flight: the handler appends the  *)
(* utterance and reads the context without giving up the event loop.        *)

\* the text a handler logs for the utterance of turn t
OwnEntry(t) ==
    (IF turns[t].kind = "on_message" THEN "User: " ELSE "User (HTTP): ")
    \o turns[t].text

\* the turns that have handed a prompt to the model
PromptedTurns == {t \in TurnIds : turns[t].logged # <<>>}

C25_ContextEndsWithOwnUtterance ==
    \A t \in PromptedTurns :
        \/ turns[t].context = "- " \o OwnEntry(t)
        \/ EndsWith(turns[t].context, "\n- " \o OwnEntry(t))

\* C25 witness: turn 2 came in while turn 1 waited for the model; the
\* context of turn 2 holds the utterance of turn 1 and ends with its own
C25_Witness ==
    /\ turns[1].pc = "generating"
    /\ turns[2].pc = "generating"
    /\ history = <<OwnEntry(1), OwnEntry(2)>>
    /\ EndsWith(turns[1].context, "\n- " \o OwnEntry(1))
    /\ EndsWith(turns[2].context, "\n- " \o OwnEntry(1) \o "\n- " \o OwnEntry(2))

----------------------------------------------------------------------------
(* Properties of the timer tools *)

\* absent, RUNNING or DONE
Status(timer_id) ==
    IF timer_id \in DOMAIN active_timers THEN active_timers[timer_id] ELSE "absent"

\* the set_timer call that created the timer of this id: the last one made
\* with the id
RECURSIVE CreatorFrom(_, _)
CreatorFrom(timer_id, n) ==
    IF set_timers[n].timer_id = timer_id THEN set_timers[n]
    ELSE CreatorFrom(timer_id, n - 1)

Creator(timer_id) == CreatorFrom(timer_id, Len(set_timers))

\* C26: a timer id goes from absent to RUNNING (set_timer), from RUNNING to
\* DONE (its thread) and from DONE to absent (check_timer), and in no other
\* way: an absent id comes back through set_timer only, check_timer removes
\* an id exactly when it reports it done, and never a RUNNING one.
C26_TimerLifecycle ==
    [][\A id \in TimerIds :
          /\ Status(id)' # Status(id) =>
                \/ /\ Status(id) = "absent"
                   /\ Status(id)' = "RUNNING"
                   /\ timer_call'.op = "set_timer"
                \/ /\ Status(id) = "RUNNING"
                   /\ Status(id)' = "DONE"
                   /\ timer_call'.op = "timer_thread"
                \/ /\ Status(id) = "DONE"
                   /\ Status(id)' = "absent"
                   /\ timer_call'.op = "check_timer"
          /\ (timer_call'.op = "check_timer" /\ timer_call'.timer_id = id) =>
                /\ Status(id) = "RUNNING" => Status(id)' = "RUNNING"
                /\ Status(id) = "DONE" =>
                      timer_call'.result = check_timer_result(id, "DONE")]_vars

\* C27: a timer is DONE, and is reported done, only when the minutes asked
\* for in the set_timer call that created it have gone by since that call.
C27_DoneOnlyAfterDuration ==
    /\ \A id \in TimerIds :
          Status(id) = "DONE" =>
              elapsed >= Creator(id).at + Creator(id).minutes
    /\ (/\ timer_call.op = "check_timer"
        /\ timer_call.result = check_timer_result(timer_call.timer_id, "DONE")) =>
          elapsed >= Creator(timer_call.timer_id).at
                     + Creator(timer_call.timer_id).minutes

====
